---------------------------- MODULE Spec2Model ----------------------------
(***************************************************************************)
(* Model of pysynphot's Observation class in its two generations:          *)
(*   variant "obs"    : src/lib/observation.py    (overlap validation,     *)
(*                      flux-density binning, derived statistics)          *)
(*   variant "newobs" : src/lib/newobservation.py (raw-sum binning)        *)
(*                                                                         *)
(* Numbers.  Wavelengths and fluxes are floats in the source.  The model   *)
(* uses exact fixed-point arithmetic: a wavelength value v stands for v/2  *)
(* wavelength units and a flux value f for f/2 flux units.  Bin centers,   *)
(* natural grid points and flux samples are whole units (even numbers), so *)
(* the two halvings of initbinflux ("/ 2.0") are exact.  A quotient of two *)
(* floats is kept as a record (FloatDiv) so that 0.0/0.0 is visible.       *)
(* Rounding of IEEE doubles is not modelled.                               *)
(***************************************************************************)
EXTENDS Integers, Sequences, FiniteSets, TLC

\* ---------------------------------------------------------------- bounds
MaxBins == 3
MaxCenter == 4

\* ------------------------------------------------------- generic helpers
NoneVal == [isNone |-> TRUE, val |-> <<>>]
Some(v) == [isNone |-> FALSE, val |-> v]

Range(s) == {s[i] : i \in 1..Len(s)}

Min(S) == CHOOSE x \in S : \A y \in S : x <= y
Max(S) == CHOOSE x \in S : \A y \in S : x >= y

RECURSIVE SortedSeq(_)
SortedSeq(S) == IF S = {} THEN <<>> ELSE <<Min(S)>> \o SortedSeq(S \ {Min(S)})

RECURSIVE SumSeq(_)
SumSeq(s) == IF Len(s) = 0 THEN 0 ELSE Head(s) + SumSeq(Tail(s))

\* Python slice a[first:last] for 0 <= first, 0 <= last (0-based, half-open,
\* clipped to the array, empty when first >= last).
Slice(a, first, last) ==
    LET hi == IF last > Len(a) THEN Len(a) ELSE last
    IN IF first >= hi THEN <<>> ELSE SubSeq(a, first + 1, hi)

\* ------------------------------------------------------ float quotients
NaN == [kind |-> "nan", num |-> 0, den |-> 0]
Float(n) == [kind |-> "num", num |-> n, den |-> 1]

\* numpy float64 scalar division under the default error state: x/0.0 warns
\* and yields nan (x = 0) or inf, it does not raise.
FloatDiv(a, b) ==
    IF b = 0 THEN (IF a = 0 THEN NaN ELSE [kind |-> "inf", num |-> a, den |-> 0])
    ELSE [kind |-> "num", num |-> a, den |-> b]

IsZero(q) == q.kind = "num" /\ q.num = 0

\* ------------------------------------------------------------- str.lower
UpperAlpha == <<"A","B","C","D","E","F","G","H","I","J","K","L","M",
                "N","O","P","Q","R","S","T","U","V","W","X","Y","Z">>
LowerAlpha == <<"a","b","c","d","e","f","g","h","i","j","k","l","m",
                "n","o","p","q","r","s","t","u","v","w","x","y","z">>

LowerChar(c) ==
    IF \E i \in 1..26 : UpperAlpha[i] = c
    THEN LowerAlpha[CHOOSE i \in 1..26 : UpperAlpha[i] = c]
    ELSE c

\* a string is a tuple of one-character strings
lower(s) == [i \in 1..Len(s) |-> LowerChar(s[i])]

startswith(s, prefix) ==
    Len(s) >= Len(prefix) /\ SubSeq(s, 1, Len(prefix)) = prefix

str_taper == <<"t","a","p","e","r">>
str_extrap == <<"e","x","t","r","a","p">>

\* ------------------------------------------- collaborators (spectrum.py)
\* MergeWaveSets: sorted, duplicate-free union of two wavesets.
MergeWaveSets(w1, w2) == SortedSeq(Range(w1) \cup Range(w2))

\* check_overlap: how the bandpass domain sits relative to the spectrum's.
check_overlap(sp, bp) ==
    LET s1 == Min(Range(sp.wave))
        s2 == Max(Range(sp.wave))
        b1 == Min(Range(bp.wave))
        b2 == Max(Range(bp.wave))
    IN IF s1 <= b1 /\ b2 <= s2 THEN "full"
       ELSE IF b2 < s1 \/ s2 < b1 THEN "none"
       ELSE "partial"

\* tabulate(): the same samples held in a table (which has taper()).
tabulate(sp) == [sp EXCEPT !.kind = "tabular"]

\* taper(): one zero-flux sample is added beyond each end of the table.
taper(sp) ==
    LET n  == Len(sp.wave)
        lo == sp.wave[1] - (sp.wave[2] - sp.wave[1])
        hi == sp.wave[n] + (sp.wave[n] - sp.wave[n-1])
    IN [sp EXCEPT !.wave = <<lo>> \o sp.wave \o <<hi>>,
                  !.tapered = TRUE]

\* Flux of the source at fixed-point wavelength w.
SpecFlux(sp, w) ==
    LET n == Len(sp.wave)
    IN IF sp.tapered /\ (w <= sp.wave[1] \/ w >= sp.wave[n]) THEN 0
       ELSE IF sp.fluxfn = "flat" THEN 4
       ELSE 2 * w

\* CompositeSourceSpectrum.__call__: product of source flux and throughput.
CompositeCall(sp, bp, wave) ==
    [i \in 1..Len(wave) |-> SpecFlux(sp, wave[i]) * bp.thru]

\* CompositeSourceSpectrum.wave: merge of the components' natural wavesets.
CompositeWave(sp, bp) == MergeWaveSets(sp.wave, bp.wave)

\* units.Units(name).name: the canonical (lower-case) unit name.
UnitName(name) ==
    IF name \in {"FLAM", "flam"} THEN "flam"
    ELSE IF name \in {"Counts", "counts"} THEN "counts"
    ELSE "photlam"

\* SourceSpectrum.convert(targetunits): the new value of self.fluxunits.name
convert(fu, targetunits) == UnitName(targetunits)

\* bandpass.obsmode.bandWave(): outcome by kind of bandpass.
\*   "absent"   : the bandpass has no obsmode      -> AttributeError
\*   "keyerror" : the mode is not in the wavecat   -> KeyError
\*   "none"     : bandWave() returns None
\*   "grid"     : bandWave() returns the native bin centers
bandWave(bp) ==
    IF bp.obsmode = "absent" THEN [raised |-> "AttributeError", ret |-> NoneVal]
    ELSE IF bp.obsmode = "keyerror" THEN [raised |-> "KeyError", ret |-> NoneVal]
    ELSE IF bp.obsmode = "none" THEN [raised |-> "none", ret |-> NoneVal]
    ELSE [raised |-> "none", ret |-> Some(bp.grid)]

\* ------------------------------------------------------ validate_overlap
\* outcome of the force=None branch for an overlap status
overlap_partial_passes(stat) ==
    IF stat = "none" THEN "ValueError(disjoint)" ELSE "none"

overlap_outcome(stat) ==
    IF stat = "full" THEN "none"
    ELSE IF stat = "partial" THEN "ValueError(partial)"
    ELSE IF stat = "none" THEN "ValueError(disjoint)"
    ELSE "none"

\* force="taper": spectrum.taper(), or tabulate().taper() on AttributeError
taper_spectrum(sp) ==
    IF sp.kind = "tabular" THEN taper(sp) ELSE taper(tabulate(sp))

validate_overlap_lenient(sp, bp, force) ==
    IF force.isNone
    THEN [raised |-> overlap_outcome(check_overlap(sp, bp)),
          spectrum |-> sp, consulted |-> TRUE]
    ELSE IF lower(force.val) = str_taper
    THEN [raised |-> "none", spectrum |-> taper_spectrum(sp), consulted |-> FALSE]
    ELSE [raised |-> "none", spectrum |-> sp, consulted |-> FALSE]

validate_overlap_always_checks(sp, bp, force) ==
    LET chk == overlap_outcome(check_overlap(sp, bp))
    IN IF force.isNone
       THEN [raised |-> chk, spectrum |-> sp, consulted |-> TRUE]
       ELSE IF lower(force.val) = str_taper
       THEN [raised |-> chk,
             spectrum |-> IF chk = "none" THEN taper_spectrum(sp) ELSE sp,
             consulted |-> TRUE]
       ELSE IF startswith(lower(force.val), str_extrap)
       THEN [raised |-> "none", spectrum |-> sp, consulted |-> FALSE]
       ELSE [raised |-> "KeyError", spectrum |-> sp, consulted |-> FALSE]

validate_overlap(sp, bp, force) ==
    IF force.isNone
    THEN [raised |-> overlap_outcome(check_overlap(sp, bp)),
          spectrum |-> sp, consulted |-> TRUE]
    ELSE IF lower(force.val) = str_taper
    THEN [raised |-> "none", spectrum |-> taper_spectrum(sp), consulted |-> FALSE]
    ELSE IF startswith(lower(force.val), str_extrap)
    THEN [raised |-> "none", spectrum |-> sp, consulted |-> FALSE]
    ELSE [raised |-> "KeyError", spectrum |-> sp, consulted |-> FALSE]

\* ------------------------------------------------------------ initbinset
\* newobservation.py: a missing native binset is printed and re-raised
initbinset_new(sp, bp, binset) ==
    IF binset.isNone
    THEN LET r == bandWave(bp)
         IN IF r.raised \in {"KeyError", "AttributeError"}
            THEN [raised |-> r.raised, binwave |-> NoneVal, set |-> FALSE, printed |-> 1]
            ELSE [raised |-> r.raised, binwave |-> r.ret, set |-> TRUE, printed |-> 0]
    ELSE [raised |-> "none", binwave |-> binset, set |-> TRUE, printed |-> 0]

initbinset_obs_reraises(sp, bp, binset) ==
    IF binset.isNone
    THEN LET r == bandWave(bp)
         IN IF r.raised \in {"KeyError", "AttributeError"}
            THEN [raised |-> r.raised, binwave |-> NoneVal, set |-> FALSE, printed |-> 1]
            ELSE [raised |-> "none", binwave |-> r.ret, set |-> TRUE, printed |-> 0]
    ELSE [raised |-> "none", binwave |-> binset, set |-> TRUE, printed |-> 0]

\* observation.py: a missing native binset falls back to spectrum.wave
initbinset_obs(sp, bp, binset) ==
    IF binset.isNone
    THEN LET r  == bandWave(bp)
             b1 == IF r.raised \in {"KeyError", "AttributeError"}
                   THEN Some(sp.wave) ELSE r.ret
             p1 == IF r.raised \in {"KeyError", "AttributeError"} THEN 1 ELSE 0
         IN IF b1.isNone
            THEN [raised |-> "none", binwave |-> Some(sp.wave), set |-> TRUE,
                  printed |-> p1 + 1]
            ELSE [raised |-> "none", binwave |-> b1, set |-> TRUE, printed |-> p1]
    ELSE [raised |-> "none", binwave |-> binset, set |-> TRUE, printed |-> 0]

\* ----------------------------------------------------------- initbinflux
\* midpoints = (binwave[1:] + binwave[:-1]) / 2.0
midpoints(binwave) ==
    [i \in 1..(IF Len(binwave) = 0 THEN 0 ELSE Len(binwave) - 1) |->
        (binwave[i+1] + binwave[i]) \div 2]

\* binwave[0] and midpoints[0] are indexed: IndexError on an empty array
endpoints_raises(binwave) ==
    Len(binwave) = 0 \/ Len(midpoints(binwave)) = 0

endpoints_no_mirror(binwave) ==
    LET m == midpoints(binwave)
        n == Len(binwave)
    IN <<m[1]>> \o m \o <<binwave[n] + (binwave[n] - m[Len(m)])>>

endpoints(binwave) ==
    LET m == midpoints(binwave)
        n == Len(binwave)
    IN <<binwave[1] - (m[1] - binwave[1])>> \o m
         \o <<binwave[n] + (binwave[n] - m[Len(m)])>>

\* N.searchsorted(a, v): leftmost insertion index (0-based) of each v[i]
searchsorted(a, v) ==
    [i \in 1..Len(v) |-> Cardinality({k \in 1..Len(a) : a[k] < v[i]})]

\* the merged integration grid of each variant
spwave_of(variant, wave, binwave) ==
    IF variant = "obs"
    THEN MergeWaveSets(MergeWaveSets(wave, endpoints(binwave)), binwave)
    ELSE MergeWaveSets(wave, endpoints(binwave))

\* self._indices_last = self._indices + diff
indices_last_short(indices) ==
    [i \in 1..(Len(indices) - 1) |->
        IF indices[i+1] > indices[i] THEN indices[i+1] - 1 ELSE indices[i]]

indices_last(indices) ==
    LET diff == [i \in 1..(Len(indices) - 1) |-> indices[i+1] - indices[i]]
    IN [i \in 1..(Len(indices) - 1) |-> indices[i] + diff[i]]

\* (avflux[first:last] * deltaw[first:last]).sum()
binsum(avflux, deltaw, first, last) ==
    LET a == Slice(avflux, first, last)
        d == Slice(deltaw, first, last)
    IN SumSeq([k \in 1..Len(a) |-> a[k] * d[k]])

\* deltaw[first:last].sum()
binwidth(deltaw, first, last) == SumSeq(Slice(deltaw, first, last))

EmptyFrame ==
    [ran |-> FALSE, raised |-> "none", endpoints |-> <<>>, spwave |-> <<>>,
     indices |-> <<>>, flux |-> <<>>, avflux |-> <<>>,
     indices_first |-> <<>>, indices_last |-> <<>>, deltaw |-> <<>>,
     binflux |-> <<>>, intwave |-> <<>>]

\* the body of initbinflux once the endpoints exist
binflux_frame(variant, sp, bp, binwave) ==
    LET ep      == endpoints(binwave)
        spwave  == spwave_of(variant, CompositeWave(sp, bp), binwave)
        indices == searchsorted(spwave, ep)
        first   == [i \in 1..(Len(indices) - 1) |-> indices[i]]
        last    == indices_last(indices)
        flux    == CompositeCall(sp, bp, spwave)
        avflux  == [i \in 1..(Len(flux) - 1) |-> (flux[i+1] + flux[i]) \div 2]
        deltaw  == [i \in 1..(Len(spwave) - 1) |-> spwave[i+1] - spwave[i]]
    IN [ran |-> TRUE, raised |-> "none", endpoints |-> ep, spwave |-> spwave,
        indices |-> indices, flux |-> flux, avflux |-> avflux,
        indices_first |-> first, indices_last |-> last, deltaw |-> deltaw,
        binflux |->
          [i \in 1..Len(first) |->
             IF variant = "obs"
             THEN FloatDiv(binsum(avflux, deltaw, first[i], last[i]),
                           binwidth(deltaw, first[i], last[i]))
             ELSE Float(binsum(avflux, deltaw, first[i], last[i]))],
        intwave |->
          IF variant = "obs"
          THEN [i \in 1..Len(first) |-> binwidth(deltaw, first[i], last[i])]
          ELSE <<>>]

initbinflux_single_bin(variant, sp, bp, binwaveOpt) ==
    IF binwaveOpt.isNone
    THEN [EmptyFrame EXCEPT !.ran = TRUE, !.raised = "TypeError"]
    ELSE IF Len(binwaveOpt.val) = 0
    THEN [EmptyFrame EXCEPT !.ran = TRUE, !.raised = "IndexError"]
    ELSE IF Len(binwaveOpt.val) = 1
    THEN [EmptyFrame EXCEPT !.ran = TRUE,
                            !.endpoints = binwaveOpt.val \o binwaveOpt.val,
                            !.indices_first = <<0>>, !.indices_last = <<0>>,
                            !.binflux = <<Float(0)>>,
                            !.intwave = IF variant = "obs" THEN <<0>> ELSE <<>>]
    ELSE binflux_frame(variant, sp, bp, binwaveOpt.val)

initbinflux(variant, sp, bp, binwaveOpt) ==
    IF binwaveOpt.isNone
    THEN [EmptyFrame EXCEPT !.ran = TRUE, !.raised = "TypeError"]
    ELSE IF endpoints_raises(binwaveOpt.val)
    THEN [EmptyFrame EXCEPT !.ran = TRUE, !.raised = "IndexError"]
    ELSE binflux_frame(variant, sp, bp, binwaveOpt.val)

\* ------------------------------------------------------------ the object
\* attrs is the set of instance attributes that have been assigned; a field
\* outside attrs holds its placeholder.
Blank ==
    [attrs |-> {}, spectrum |-> NoneVal, bandpass |-> NoneVal,
     binwave |-> NoneVal, fluxunits |-> "unset",
     _indices |-> <<>>, _indices_last |-> <<>>, _deltaw |-> <<>>,
     _binflux |-> <<>>, _intwave |-> <<>>]

CompositeAttrs == {"component1", "component2", "operation", "fluxunits"}

\* the attribute assignments of a completed initbinflux
with_binflux(variant, obj, f) ==
    [obj EXCEPT !.attrs = obj.attrs \cup
                    (IF variant = "obs"
                     THEN {"_indices", "_indices_last", "_deltaw", "_binflux", "_intwave"}
                     ELSE {"_indices", "_indices_last", "_deltaw", "_binflux"}),
                !._indices = f.indices_first,
                !._indices_last = f.indices_last,
                !._deltaw = f.deltaw,
                !._binflux = f.binflux,
                !._intwave = f.intwave]

\* initbinset, then initbinflux, on an object whose composite is initialised
init_bins(variant, obj, sp, bp, binset, consulted) ==
    LET b    == IF variant = "obs" THEN initbinset_obs(sp, bp, binset)
                ELSE initbinset_new(sp, bp, binset)
        obj1 == IF b.set
                THEN [obj EXCEPT !.attrs = obj.attrs \cup {"binwave"},
                                 !.binwave = b.binwave]
                ELSE obj
        f    == initbinflux(variant, sp, bp, b.binwave)
    IN IF b.raised # "none"
       THEN [raised |-> b.raised, obj |-> obj1, frame |-> EmptyFrame,
             printed |-> b.printed, consulted |-> consulted]
       ELSE IF f.raised # "none"
       THEN [raised |-> f.raised, obj |-> obj1, frame |-> f,
             printed |-> b.printed, consulted |-> consulted]
       ELSE [raised |-> "none", obj |-> with_binflux(variant, obj1, f), frame |-> f,
             printed |-> b.printed, consulted |-> consulted]

\* observation.py Observation.__init__
init_obs(spec, band, binset, force) ==
    LET obj0 == [Blank EXCEPT !.attrs = {"spectrum", "bandpass"},
                              !.spectrum = Some(spec), !.bandpass = Some(band)]
        v    == validate_overlap(spec, band, force)
        obj1 == [obj0 EXCEPT !.spectrum = Some(v.spectrum)]
        obj2 == [obj1 EXCEPT !.attrs = obj1.attrs \cup CompositeAttrs,
                             !.fluxunits = "photlam"]
    IN IF v.raised # "none"
       THEN [raised |-> v.raised, obj |-> obj1, frame |-> EmptyFrame,
             printed |-> 0, consulted |-> v.consulted]
       ELSE init_bins("obs", obj2, v.spectrum, band, binset, v.consulted)

\* newobservation.py Observation.__init__
init_new(spec, band, binset) ==
    LET obj0 == [Blank EXCEPT !.attrs = CompositeAttrs, !.fluxunits = "photlam"]
        obj1 == [obj0 EXCEPT !.attrs = obj0.attrs \cup {"spectrum", "bandpass"},
                             !.spectrum = Some(spec), !.bandpass = Some(band)]
    IN init_bins("newobs", obj1, spec, band, binset, FALSE)

\* -------------------------------------------------- disabled operations
op_mul_returns(obj, other) ==
    [raised |-> "none", ret |-> Some(other), obj |-> obj]

op_mul(obj, other) ==
    [raised |-> "NotImplementedError", ret |-> NoneVal, obj |-> obj]

op_rmul(obj, other) ==
    [raised |-> "NotImplementedError", ret |-> NoneVal, obj |-> obj]

op_add(obj, other) ==
    [raised |-> "NotImplementedError", ret |-> NoneVal, obj |-> obj]

op_radd(obj, other) ==
    [raised |-> "NotImplementedError", ret |-> NoneVal, obj |-> obj]

op_redshift(obj, z) ==
    [raised |-> "NotImplementedError", ret |-> NoneVal, obj |-> obj]

\* ---------------------------------------------------- derived statistics
\* _getBinfluxProp: Photlam().Convert(binwave, _binflux, fluxunits.name);
\* the value is reported in the current flux unit
binflux_prop(obj) == [unit |-> obj.fluxunits, of |-> obj._binflux]

countrate_no_restore(obj, binned) ==
    LET obj1 == [obj EXCEPT !.fluxunits = convert(obj.fluxunits, "counts")]
    IN [obj |-> obj1,
        ret |-> IF binned THEN Some(binflux_prop(obj1))
                ELSE Some([unit |-> obj1.fluxunits, of |-> <<>>])]

countrate(obj, binned) ==
    LET myfluxunits == obj.fluxunits
        obj1 == [obj EXCEPT !.fluxunits = convert(obj.fluxunits, "counts")]
        ans  == IF binned THEN binflux_prop(obj1)
                ELSE [unit |-> obj1.fluxunits, of |-> <<>>]
        obj2 == [obj1 EXCEPT !.fluxunits = convert(obj1.fluxunits, myfluxunits)]
    IN [obj |-> obj2, ret |-> Some(ans)]

pivot(obj) == [obj |-> obj, ret |-> Some([unit |-> "photlam", of |-> <<>>])]

efflam(obj) ==
    LET myfluxunits == obj.fluxunits
        obj1 == [obj EXCEPT !.fluxunits = convert(obj.fluxunits, "flam")]
        flux == binflux_prop(obj1)
        obj2 == [obj1 EXCEPT !.fluxunits = convert(obj1.fluxunits, myfluxunits)]
    IN [obj |-> obj2, ret |-> Some(flux)]

\* ------------------------------------------------------------ input sets
Centers == {2 * k : k \in 1..MaxCenter}

NonDecreasing(s) == \A i \in 1..(Len(s) - 1) : s[i] <= s[i+1]
StrictlyIncreasing(s) == \A i \in 1..(Len(s) - 1) : s[i] < s[i+1]

BinSets ==
    {s \in UNION {[1..n -> Centers] : n \in 0..MaxBins} : NonDecreasing(s)}

SpecWaves == {<<2, 6>>, <<0, 4, 8>>}
BandWaves == {<<2, 6>>, <<4, 8>>, <<10, 12>>}
NativeGrid == <<2, 4, 6>>

Specs ==
    [wave : SpecWaves, kind : {"analytic", "tabular"}, tapered : {FALSE},
     fluxfn : {"flat", "ramp"}]

Bands ==
    [wave : BandWaves, obsmode : {"absent", "keyerror", "none", "grid"},
     grid : {NativeGrid}, thru : {1}]

ForceStrings ==
    { <<"t","a","p","e","r">>, <<"T","a","p","E","R">>,
      <<"e","x","t","r","a","p">>, <<"E","x","t","r","a","p","o","l","a","t","e">>,
      <<"t","a","p","e">>, <<"e","x","t","r","a">> }

Others == {"scalar", "spectrum"}
UnitArgs == {"photlam", "FLAM", "Counts"}

\* ----------------------------------------------------------------- state
VARIABLES
    pc,        \* "new" | "constructed" | "failed"
    args,      \* the constructor's arguments
    self,      \* the instance
    frame,     \* the locals of initbinflux when it returned or raised
    raised,    \* the exception the constructor propagated, or "none"
    printed,   \* number of advisory messages printed by initbinset
    consulted, \* whether spectrum.check_overlap was called
    result     \* the last method call and its outcome

vars == <<pc, args, self, frame, raised, printed, consulted, result>>

NoArgs ==
    [variant |-> "none", spec |-> NoneVal, band |-> NoneVal,
     binset |-> NoneVal, force |-> NoneVal]

NoResult == [op |-> "none", raised |-> "none", ret |-> NoneVal]

Init ==
    /\ pc = "new"
    /\ args = NoArgs
    /\ self = Blank
    /\ frame = EmptyFrame
    /\ raised = "none"
    /\ printed = 0
    /\ consulted = FALSE
    /\ result = NoResult

Finish(r) ==
    /\ pc' = IF r.raised = "none" THEN "constructed" ELSE "failed"
    /\ self' = r.obj
    /\ frame' = r.frame
    /\ raised' = r.raised
    /\ printed' = r.printed
    /\ consulted' = r.consulted
    /\ result' = NoResult

ConstructObs ==
    /\ pc = "new"
    /\ \E spec \in Specs, band \in Bands,
          binset \in {NoneVal} \cup {Some(b) : b \in BinSets},
          force \in {NoneVal} \cup {Some(f) : f \in ForceStrings} :
         /\ args' = [variant |-> "obs", spec |-> Some(spec), band |-> Some(band),
                     binset |-> binset, force |-> force]
         /\ Finish(init_obs(spec, band, binset, force))

ConstructNew ==
    /\ pc = "new"
    /\ \E spec \in Specs, band \in Bands,
          binset \in {NoneVal} \cup {Some(b) : b \in BinSets} :
         /\ args' = [variant |-> "newobs", spec |-> Some(spec), band |-> Some(band),
                     binset |-> binset, force |-> NoneVal]
         /\ Finish(init_new(spec, band, binset))

Call(op, r) ==
    /\ self' = r.obj
    /\ result' = [op |-> op, raised |-> r.raised, ret |-> r.ret]
    /\ UNCHANGED <<pc, args, frame, raised, printed, consulted>>

Mul ==
    /\ pc = "constructed"
    /\ \E other \in Others : Call("__mul__", op_mul(self, other))

RMul ==
    /\ pc = "constructed"
    /\ \E other \in Others : Call("__rmul__", op_rmul(self, other))

Add ==
    /\ pc = "constructed"
    /\ \E other \in Others : Call("__add__", op_add(self, other))

RAdd ==
    /\ pc = "constructed"
    /\ \E other \in Others : Call("__radd__", op_radd(self, other))

Redshift ==
    /\ pc = "constructed"
    /\ \E z \in {0, 1} : Call("redshift", op_redshift(self, z))

Ok(r) == [raised |-> "none", ret |-> r.ret, obj |-> r.obj]

Countrate ==
    /\ pc = "constructed"
    /\ args.variant = "obs"
    /\ \E binned \in BOOLEAN : Call("countrate", Ok(countrate(self, binned)))

Pivot ==
    /\ pc = "constructed"
    /\ args.variant = "obs"
    /\ Call("pivot", Ok(pivot(self)))

Efflam ==
    /\ pc = "constructed"
    /\ args.variant = "obs"
    /\ Call("efflam", Ok(efflam(self)))

ReadBinflux ==
    /\ pc = "constructed"
    /\ Call("binflux", [raised |-> "none", ret |-> Some(binflux_prop(self)), obj |-> self])

Convert ==
    /\ pc = "constructed"
    /\ \E u \in UnitArgs :
         Call("convert", [raised |-> "none", ret |-> NoneVal,
                          obj |-> [self EXCEPT !.fluxunits = convert(self.fluxunits, u)]])

Next ==
    \/ ConstructObs
    \/ ConstructNew
    \/ Mul
    \/ RMul
    \/ Add
    \/ RAdd
    \/ Redshift
    \/ Countrate
    \/ Pivot
    \/ Efflam
    \/ ReadBinflux
    \/ Convert

Spec == Init /\ [][Next]_vars

\* =================================================================== claims
DisabledOps == {"__mul__", "__rmul__", "__add__", "__radd__", "redshift"}
StatOps == {"countrate", "pivot", "efflam", "binflux"}
OverlapErrors == {"ValueError(partial)", "ValueError(disjoint)"}

TaperForces == { <<"t","a","p","e","r">>, <<"T","a","p","E","R">> }
ExtrapForces ==
    { <<"e","x","t","r","a","p">>, <<"E","x","t","r","a","p","o","l","a","t","e">> }
IllegalForces == { <<"t","a","p","e">>, <<"e","x","t","r","a">> }

\* trapezoid rule on samples (w, f) over the intervals first..last-1 (0-based)
Trapz(w, f, first, last) ==
    SumSeq([k \in 1..(last - first) |->
              ((f[first + k] + f[first + k + 1]) * (w[first + k + 1] - w[first + k])) \div 2])

SumBinflux == SumSeq([i \in 1..Len(self._binflux) |-> self._binflux[i].num])

\* C1: every bin whose index range [first_i, last_i) is empty has stored
\* flux 0 (and, in observation.py, stored width 0) in both variants.
C1_EmptyBinIsZero ==
    pc = "constructed" =>
      \A i \in 1..Len(self._indices) :
        self._indices[i] >= self._indices_last[i] =>
          /\ IsZero(self._binflux[i])
          /\ (args.variant = "obs" => self._intwave[i] = 0)

\* C2: for strictly increasing bin centers (n >= 2) initbinflux builds n+1
\* endpoints with endpoints[i] < binwave[i] < endpoints[i+1]; the interior
\* endpoints are midpoints and the outer two mirror the first/last half-bin.
C2_EndpointsBracketCenters ==
    (frame.ran /\ frame.raised = "none" /\ StrictlyIncreasing(self.binwave.val)) =>
      LET bw == self.binwave.val
          ep == frame.endpoints
          n  == Len(bw)
      IN /\ n >= 2
         /\ Len(ep) = n + 1
         /\ \A i \in 1..n : ep[i] < bw[i] /\ bw[i] < ep[i+1]
         /\ \A i \in 2..n : 2 * ep[i] = bw[i-1] + bw[i]
         /\ bw[1] - ep[1] = ep[2] - bw[1]
         /\ ep[n+1] - bw[n] = bw[n] - ep[n]

C2_Witness ==
    /\ pc = "constructed"
    /\ self.binwave.val = <<2, 4, 8>>
    /\ frame.endpoints = <<1, 3, 6, 10>>

\* C3: in raw-sum mode the bin ranges are contiguous and non-overlapping, the
\* bin fluxes add up to the trapezoid sum over [indices[0], indices[n]), and
\* to the trapezoid integral over the whole merged grid when the bins tile it.
C3_RawSumTelescopes ==
    (pc = "constructed" /\ args.variant = "newobs") =>
      LET n    == Len(self._indices)
          lo   == self._indices[1]
          hi   == self._indices_last[n]
      IN /\ \A i \in 1..n : self._indices[i] <= self._indices_last[i]
         /\ \A i \in 1..(n - 1) : self._indices_last[i] = self._indices[i+1]
         /\ \A i \in 1..n : self._binflux[i].kind = "num" /\ self._binflux[i].den = 1
         /\ SumBinflux = Trapz(frame.spwave, frame.flux, lo, hi)
         /\ (lo = 0 /\ hi = Len(frame.spwave) - 1) =>
               SumBinflux = Trapz(frame.spwave, frame.flux, 0, Len(frame.spwave) - 1)

C3_Witness ==
    /\ pc = "constructed"
    /\ args.variant = "newobs"
    /\ Len(self._indices) = 3
    /\ self._indices[1] = 0
    /\ self._indices_last[3] = Len(frame.spwave) - 1
    /\ Len(frame.spwave) > 4
    /\ args.spec.val.fluxfn = "ramp"
    /\ SumBinflux > 0

\* C4: with force=None construction gets past validation only when
\* check_overlap returns 'full'; 'partial' and 'none' raise the overlap error
\* before the composite is initialised and before initbinset/initbinflux.
C4_StrictOverlap ==
    (pc # "new" /\ args.variant = "obs" /\ args.force.isNone) =>
      LET stat == check_overlap(args.spec.val, args.band.val)
      IN /\ consulted
         /\ (stat = "full") <=> (raised \notin OverlapErrors)
         /\ (stat = "partial") <=> (raised = "ValueError(partial)")
         /\ (stat = "none") <=> (raised = "ValueError(disjoint)")
         /\ pc = "constructed" => stat = "full"
         /\ raised \in OverlapErrors =>
              /\ pc = "failed"
              /\ self.attrs = {"spectrum", "bandpass"}
              /\ self.binwave = NoneVal
              /\ self._binflux = <<>>
              /\ self.fluxunits = "unset"
              /\ ~frame.ran
              /\ printed = 0

C4_Witness ==
    /\ pc = "failed"
    /\ args.force.isNone
    /\ raised = "ValueError(disjoint)"
    /\ args.spec.val.wave = <<2, 6>>
    /\ args.band.val.wave = <<10, 12>>

\* C5: a supplied binset of fewer than 2 centers never yields a constructed
\* object or a _binflux; initbinflux, whenever it is reached, raises the
\* degenerate-binset error (IndexError), and only an error of
\* validate_overlap can pre-empt it.
C5_DegenerateBinset ==
    (pc # "new" /\ ~args.binset.isNone /\ Len(args.binset.val) < 2) =>
      /\ pc = "failed"
      /\ "_binflux" \notin self.attrs
      /\ self._binflux = <<>>
      /\ frame.binflux = <<>>
      /\ frame.ran => raised = "IndexError"
      /\ args.variant = "newobs" => raised = "IndexError"
      /\ raised # "IndexError" =>
            (~frame.ran /\ raised \in OverlapErrors \cup {"KeyError"})

C5_Witness ==
    /\ pc = "failed"
    /\ ~args.binset.isNone
    /\ Len(args.binset.val) = 1
    /\ raised = "IndexError"
    /\ frame.ran
    /\ "binwave" \in self.attrs

\* C6: on a constructed Observation __add__, __radd__, __mul__, __rmul__ and
\* redshift always raise NotImplementedError, return nothing and leave the
\* observation unchanged.
C6_DisabledOpsRaise ==
    [][(pc = "constructed" /\ result'.op \in DisabledOps) =>
          /\ result'.raised = "NotImplementedError"
          /\ result'.ret.isNone
          /\ self' = self
          /\ pc' = pc
          /\ frame' = frame]_vars

C6_Witness ==
    /\ pc = "constructed"
    /\ result.op = "__mul__"
    /\ result.raised = "NotImplementedError"

\* no native bin grid: bandWave() raised or returned None
NoNativeGrid ==
    /\ args.binset.isNone
    /\ args.band.val.obsmode \in {"absent", "keyerror", "none"}

FellBack ==
    /\ "binwave" \in self.attrs
    /\ self.binwave = Some(self.spectrum.val.wave)
    /\ printed >= 1
    /\ frame.ran
    /\ raised \notin {"KeyError", "AttributeError", "TypeError"}

C8_IllegalForce ==
    (pc # "new" /\ args.variant = "obs" /\ ~args.force.isNone
        /\ args.force.val \in IllegalForces) =>
      /\ pc = "failed"
      /\ raised = "KeyError"
      /\ ~consulted
      /\ self.spectrum = args.spec
      /\ self.attrs = {"spectrum", "bandpass"}
      /\ self.binwave = NoneVal
      /\ self._binflux = <<>>
      /\ ~frame.ran
      /\ printed = 0

C8_Witness ==
    /\ pc = "failed"
    /\ raised = "KeyError"
    /\ args.force.val = <<"e","x","t","r","a">>
    /\ ~args.binset.isNone

\* C9: force='extrap...' or 'taper' (any case) raises no overlap error for any
\* overlap status; 'extrap' leaves the spectrum as given, 'taper' replaces it
\* by the tapered (tabulated if need be) spectrum; initbinset and initbinflux
\* then run.
C9_ForcedOverlap ==
    (pc # "new" /\ args.variant = "obs" /\ ~args.force.isNone
        /\ args.force.val \in TaperForces \cup ExtrapForces) =>
      /\ raised \notin OverlapErrors \cup {"KeyError"}
      /\ ~consulted
      /\ "binwave" \in self.attrs
      /\ frame.ran
      /\ args.force.val \in ExtrapForces => self.spectrum = args.spec
      /\ args.force.val \in TaperForces =>
           LET sp == self.spectrum.val
               w0 == args.spec.val.wave
           IN /\ sp.tapered
              /\ sp.kind = "tabular"
              /\ sp.fluxfn = args.spec.val.fluxfn
              /\ Len(sp.wave) = Len(w0) + 2
              /\ SubSeq(sp.wave, 2, Len(w0) + 1) = w0
      /\ (Len(self.binwave.val) >= 2) => pc = "constructed"

C9_Witness ==
    /\ pc = "constructed"
    /\ args.force.val = <<"E","x","t","r","a","p","o","l","a","t","e">>
    /\ check_overlap(args.spec.val, args.band.val) = "none"
    /\ Len(self._binflux) >= 2

\* C10: countrate, pivot, efflam and reading binflux leave the flux unit as
\* it was before the call and never touch _binflux, _intwave or binwave,
\* which stay as initbinset/initbinflux set them.
C10_StatsReadOnly ==
    [][(pc = "constructed" /\ result'.op \in StatOps) =>
          /\ result'.raised = "none"
          /\ self'.fluxunits = self.fluxunits
          /\ self'._binflux = self._binflux
          /\ self'._binflux = frame.binflux
          /\ self'._intwave = self._intwave
          /\ self'._intwave = frame.intwave
          /\ self'.binwave = self.binwave]_vars

C10_Witness ==
    /\ pc = "constructed"
    /\ result.op = "countrate"
    /\ result.ret.val.unit = "counts"
    /\ self.fluxunits = "flam"

=============================================================================
